---- MODULE Spec2Model ----
\* SelfForge backend: goals and milestones (progress engine), calendar items,
\* habit/daily logs, user preferences and bearer-token authentication, as the
\* request handlers of src/backend implement them. One action is one request.
EXTENDS Integers, Sequences, FiniteSets, TLC

\* ---------------------------------------------------------------- bounds
MaxRequests == 3
MaxTime == 2
MaxMilestones == 2
MaxTotal == 50

\* ------------------------------------------------ IEEE-754 double arithmetic
\* goal.progress is int((completed / total) * 100): a true division of two ints
\* (correctly rounded to a double, 53 significant bits), a double multiplication
\* by 100.0 (rounded again, to nearest, ties to even) and a truncation. The
\* significands exceed the checker's integers, so they are kept as three limbs
\* of 18 bits: <<hi, mid, lo>> stands for hi * 2^36 + mid * 2^18 + lo.
LimbBase == 2 ^ 18

\* number of 0 bits that follow the binary point of r/t before its first 1 bit
RECURSIVE LeadingZeros(_, _)
LeadingZeros(r, t) ==
    IF 2 * r >= t THEN 0 ELSE 1 + LeadingZeros(2 * r, t)

\* num / den for ints 0 < num < den, as a double. With lz the leading zeros of
\* the quotient, long division yields its first 54 bits (the first one is 1);
\* the 54th bit and the remainder decide the rounding of the 53-bit significand.
\* The result is [sig, lz]: the value is sig * 2^(-(54 + lz)), sig even.
TrueDivide(num, den) ==
    LET lz == LeadingZeros(num, den)
        r0 == num * (2 ^ lz)
        q1 == (r0 * LimbBase) \div den
        r1 == (r0 * LimbBase) % den
        q2 == (r1 * LimbBase) \div den
        r2 == (r1 * LimbBase) % den
        q3 == (r2 * LimbBase) \div den
        r3 == (r2 * LimbBase) % den
        roundBit == q3 % 2
        odd == (q3 \div 2) % 2 = 1
        up == roundBit = 1 /\ (r3 # 0 \/ odd)
        lo == q3 - roundBit + (IF up THEN 2 ELSE 0)
        mid == q2 + (lo \div LimbBase)
        hi == q1 + (mid \div LimbBase)
    IN  IF hi >= LimbBase
        THEN [sig |-> <<LimbBase \div 2, 0, 0>>, lz |-> lz - 1]
        ELSE [sig |-> <<hi, mid % LimbBase, lo % LimbBase>>, lz |-> lz]

\* d * 100.0 for the double d. The exact product has 60 or 61 bits; its lowest
\* 7 or 8 bits are rounded away. The result is [top, lz]: top is the product
\* shifted right by 54 bits (nothing below that matters to the integer part),
\* and the value is (top + fraction) * 2^(-lz).
TimesHundred(d) ==
    LET p3 == d.sig[3] * 100
        p2 == (d.sig[2] * 100) + (p3 \div LimbBase)
        p1 == (d.sig[1] * 100) + (p2 \div LimbBase)
        p0 == p1 \div LimbBase
        low == p3 % LimbBase
        drop == IF p0 >= 64 THEN 8 ELSE 7
        unit == 2 ^ drop
        lost == low % unit
        odd == (low \div unit) % 2 = 1
        half == unit \div 2
        up == (lost > half) \/ (lost = half /\ odd)
        low2 == low - lost + (IF up THEN unit ELSE 0)
        mid2 == (p2 % LimbBase) + (low2 \div LimbBase)
        hi2 == (p1 % LimbBase) + (mid2 \div LimbBase)
    IN  [top |-> p0 + (hi2 \div LimbBase), lz |-> d.lz]

\* int(f) for a double f >= 0: the bits left of the binary point
Truncate(f) == f.top \div (2 ^ f.lz)

\* int((completed_milestones / total_milestones) * 100) if total > 0 else 0
ProgressOf(completed_milestones, total_milestones) ==
    IF total_milestones > 0
    THEN IF completed_milestones = 0 THEN 0
         ELSE IF completed_milestones = total_milestones THEN 100
         ELSE Truncate(TimesHundred(TrueDivide(completed_milestones, total_milestones)))
    ELSE 0

\* ------------------------------------------------------------ value domains
\* An Optional[T] value is a set: None is the empty set and v is {v}; a dict of
\* the fields set in a request body is a function on the names of those fields.
None == {}

Some(v) == {v}

Optional(S) == {None} \cup {Some(v) : v \in S}

\* truthiness of an Optional[bool], as in `if m.completed` / `not value`
Truthy(v) == TRUE \in v

Owners == {"A", "B"}

Times == 0..MaxTime

\* milestone titles: the one given at creation and the one an update renames to
NewTitle == "a"

RenamedTitle == "b"

Statuses == {"not-started", "in-progress", "completed", "paused"}

EmptyTable == [k \in {} |-> None]

\* the table with row `key` added or replaced
Put(table, key, row) ==
    [k \in DOMAIN table \cup {key} |-> IF k = key THEN row ELSE table[k]]

\* the dict with no field set
EmptyDict == [f \in {} |-> None]

VARIABLES
    now,          \* the wall clock that datetime.utcnow() reads
    goals,        \* table goals: id -> row
    milestones,   \* table goal_milestones: id -> row
    last,         \* the request handled by the latest step, and its response
    served,       \* the number of requests handled so far
    users,              \* table users: the registered emails
    secret_configured,  \* whether SECRET_JWT_KEY is set in the environment
    calendar_items,     \* table calendar_items: id -> row
    habit_logs,         \* table habit_logs: the rows, in id order
    user_preferences,   \* table user_preferences: the rows, in id order
    own_preferences,    \* per owner, the preferences that owner has saved
    daily_logs,         \* table daily_logs: the rows, in id order
    timer_sessions,     \* table timer_sessions: id -> row
    inflight,           \* the requests that have queried and not yet committed
    schema,             \* per user-scoped table, its columns and its indexes
    vector_store,       \* the module global vector_store of routers/ai.py
    retriever,          \* the module global retriever of routers/ai.py
    loaders             \* per thread, where it is in load_vector_store

goalVars == <<goals, milestones>>

calendarVars == <<users, secret_configured, calendar_items, habit_logs>>

prefVars == <<user_preferences, own_preferences>>

recordVars == <<daily_logs, timer_sessions, inflight>>

processVars == <<schema, vector_store, retriever, loaders>>

vars == <<now, goals, milestones, last, served, users, secret_configured,
          calendar_items, habit_logs, user_preferences, own_preferences,
          daily_logs, timer_sessions, inflight, schema, vector_store, retriever, loaders>>

\* a reading of the clock by a handler: time may have passed since the last one
ClockReads(from) == {t \in Times : from <= t /\ t <= from + 1}

\* ------------------------------------------------------------------- goals
\* GoalMilestoneUpdate: title and completed are Optional, and an explicit null
\* counts as set (dict(exclude_unset=True) keeps it)
MilestoneUpdates ==
    {EmptyDict}
    \cup {[title |-> v] : v \in Optional({RenamedTitle})}
    \cup {[completed |-> c] : c \in Optional(BOOLEAN)}
    \cup {[title |-> v, completed |-> c] : v \in Optional({RenamedTitle}), c \in Optional(BOOLEAN)}

\* GoalUpdate, restricted to the two fields the progress engine also writes
GoalUpdates ==
    {EmptyDict}
    \cup {[status |-> v] : v \in Statuses}
    \cup {[progress |-> p] : p \in {0, 100}}
    \cup {[status |-> v, progress |-> p] : v \in Statuses, p \in {0, 100}}

\* goal.milestones: the relationship on goal_milestones.goal_id
MilestonesOf(table, goal_id) == {m \in DOMAIN table : table[m].goal_id = goal_id}

CompletedOf(table, goal_id) ==
    {m \in MilestonesOf(table, goal_id) : Truthy(table[m].completed)}

\* the query of update_milestone: id and goal_id must both match
FindMilestone(goal_id, milestone_id) ==
    {m \in DOMAIN milestones : m = milestone_id /\ milestones[m].goal_id = goal_id}

\* (variant) the stamp is taken on every update that sets completed to true
CompletedAtRefreshed(row, update_data, t) ==
    IF "completed" \in DOMAIN update_data
    THEN IF Truthy(update_data.completed) THEN Some(t) ELSE None
    ELSE row.completed_at

\* the completed_at that the loop over update_data leaves on a milestone row
CompletedAtAfter(row, update_data, t) ==
    IF "completed" \in DOMAIN update_data
    THEN IF Truthy(update_data.completed) /\ ~Truthy(row.completed) THEN Some(t)
         ELSE IF ~Truthy(update_data.completed) THEN None
         ELSE row.completed_at
    ELSE row.completed_at

\* (variant) the body is applied without exclude_unset: unset fields are None
SetFieldsUnsetToo(row, update_data) ==
    [f \in DOMAIN row |->
        IF f \in DOMAIN update_data THEN update_data[f]
        ELSE IF f \in {"title", "completed"} THEN None
        ELSE row[f]]

\* setattr(milestone, field, value) for every field of update_data
SetFields(row, update_data) ==
    [f \in DOMAIN row |-> IF f \in DOMAIN update_data THEN update_data[f] ELSE row[f]]

\* the milestone row after lines 114-122
UpdatedMilestone(row, update_data, t) ==
    [SetFields(row, update_data) EXCEPT
        !.completed_at = CompletedAtAfter(row, update_data, t),
        !.updated_at = t]

\* (variant) a progress of 0 puts the goal back to not-started
StatusForResetting(progress, status) ==
    IF progress = 100 THEN "completed"
    ELSE IF progress > 0 THEN "in-progress"
    ELSE "not-started"

\* goal.status after the recomputation of goal.progress
StatusFor(progress, status) ==
    IF progress = 100 THEN "completed"
    ELSE IF progress > 0 THEN "in-progress"
    ELSE status

\* the goal row after lines 124-139, given the milestone table of the session;
\* Goal.updated_at has onupdate=datetime.utcnow, so it moves when the row does
RecomputedGoal(row, goal_id, table, t) ==
    LET progress == ProgressOf(Cardinality(CompletedOf(table, goal_id)),
                               Cardinality(MilestonesOf(table, goal_id)))
        status == StatusFor(progress, row.status)
    IN  [row EXCEPT !.progress = progress,
                    !.status = status,
                    !.updated_at = IF progress = row.progress /\ status = row.status
                                   THEN row.updated_at ELSE t]

\* Column(DateTime, default=datetime.now(timezone.utc)): the default is one
\* value, computed when models.py is imported
ImportTime == 0

\* the clock readings of one handler that calls utcnow() n times
ReadSeqs(from, n) ==
    {r \in [1..n -> Times] :
        /\ r[1] \in ClockReads(from)
        /\ \A i \in 2..n : r[i] \in ClockReads(r[i - 1])}

\* GoalCreate.milestones: up to MaxMilestones GoalMilestoneCreate bodies
MilestoneCreates ==
    UNION {[1..k -> [title : {NewTitle}, completed : BOOLEAN]] : k \in 0..MaxMilestones}

NewGoal(caller) ==
    [user_id |-> None, status |-> "not-started", progress |-> 0,
     updated_at |-> ImportTime, creator |-> caller]

NewMilestone(goal_id, milestone_data) ==
    [user_id |-> None, goal_id |-> goal_id, title |-> Some(milestone_data.title),
     completed |-> Some(milestone_data.completed), completed_at |-> None,
     updated_at |-> ImportTime]

\* POST /goals. reads[1] is the clock reading that becomes the goal's id,
\* reads[i + 1] the one that becomes the id of milestone i. A primary key that
\* is taken (or used twice) fails the flush or the commit: the session is
\* rolled back and the request ends with 500.
create_goal(caller, goal, reads) ==
    LET goal_id == reads[1]
        ids == [i \in 1..Len(goal) |-> reads[i + 1]]
        clash == \/ goal_id \in DOMAIN goals
                 \/ \E i \in 1..Len(goal) : ids[i] \in DOMAIN milestones
                 \/ \E i, j \in 1..Len(goal) : i # j /\ ids[i] = ids[j]
        added == [m \in {ids[i] : i \in 1..Len(goal)} |->
                    NewMilestone(goal_id, goal[CHOOSE i \in 1..Len(goal) : ids[i] = m])]
    IN  /\ now' = reads[Len(reads)]
        /\ IF clash
           THEN /\ UNCHANGED goalVars
                /\ last' = [op |-> "create_goal", caller |-> caller, status |-> 500,
                            goal_id |-> goal_id, supplied |-> goal]
           ELSE /\ goals' = Put(goals, goal_id, NewGoal(caller))
                /\ milestones' = [m \in DOMAIN milestones \cup DOMAIN added |->
                                    IF m \in DOMAIN added THEN added[m] ELSE milestones[m]]
                /\ last' = [op |-> "create_goal", caller |-> caller, status |-> 200,
                            goal_id |-> goal_id, supplied |-> goal]

\* PUT /goals/{goal_id}
update_goal(caller, goal_id, goal_update, t) ==
    /\ now' = t
    /\ UNCHANGED milestones
    /\ IF goal_id \notin DOMAIN goals
       THEN /\ UNCHANGED goals
            /\ last' = [op |-> "update_goal", caller |-> caller, status |-> 404]
       ELSE /\ goals' = [goals EXCEPT ![goal_id] =
                            [SetFields(goals[goal_id], goal_update) EXCEPT !.updated_at = t]]
            /\ last' = [op |-> "update_goal", caller |-> caller, status |-> 200,
                        goal_id |-> goal_id]

\* PUT /goals/{goal_id}/milestones/{milestone_id}. goal_milestones.title is
\* NOT NULL: a title set to null fails the flush, and the request ends with 500
\* and a rolled-back session.
update_milestone(caller, goal_id, milestone_id, milestone_update, t) ==
    LET found == FindMilestone(goal_id, milestone_id)
        answer(code) == [op |-> "update_milestone", caller |-> caller, status |-> code]
        applied == [op |-> "update_milestone", caller |-> caller, status |-> 200,
                    goal_id |-> goal_id, milestone_id |-> milestone_id,
                    update |-> milestone_update]
    IN  /\ now' = t
        /\ IF found = {}
           THEN /\ UNCHANGED goalVars
                /\ last' = answer(404)
           ELSE LET milestone == UpdatedMilestone(milestones[milestone_id], milestone_update, t)
                    table == [milestones EXCEPT ![milestone_id] = milestone]
                IN  IF milestone.title = None
                    THEN /\ UNCHANGED goalVars
                         /\ last' = answer(500)
                    ELSE /\ milestones' = table
                         /\ goals' = IF goal_id \in DOMAIN goals
                                     THEN [goals EXCEPT ![goal_id] =
                                             RecomputedGoal(goals[goal_id], goal_id, table, t)]
                                     ELSE goals
                         /\ last' = applied

\* ---------------------------------------------------------------- requests
\* ids a request may name: every id the clock can produce, taken or not
IdInputs == Times

CreateGoalReq ==
    \E caller \in Owners, goal \in MilestoneCreates :
        \E reads \in ReadSeqs(now, Len(goal) + 1) : create_goal(caller, goal, reads)

UpdateGoalReq ==
    \E caller \in Owners, goal_id \in IdInputs, goal_update \in GoalUpdates :
        \E t \in ClockReads(now) : update_goal(caller, goal_id, goal_update, t)

UpdateMilestoneReq ==
    \E caller \in Owners, goal_id \in IdInputs, milestone_id \in IdInputs :
        \E milestone_update \in MilestoneUpdates, t \in ClockReads(now) :
            update_milestone(caller, goal_id, milestone_id, milestone_update, t)

\* the column defaults of UserPreferences
DefaultCalendarView == "month"

DefaultPomodoroDuration == 25

DefaultPreferences ==
    [default_calendar_view |-> Some(DefaultCalendarView),
     default_pomodoro_duration |-> Some(DefaultPomodoroDuration)]

\* core/migrations.py: the tables that get a user_id column
USER_SCOPED_TABLES ==
    {"calendar_items", "goals", "goal_milestones", "timer_sessions", "daily_logs",
     "habit_logs", "user_preferences"}

\* f"ix_{table_name}_user_id"
IndexName(table_name) == <<"ix", table_name, "user_id">>

\* a table as Base.metadata.create_all makes it (models.py:168): user_id, which
\* is declared with index=True, and its index are there
CreatedTable(table_name) ==
    [columns |-> {"id", "user_id"}, indexes |-> {IndexName(table_name)}]

\* the threads that may call load_vector_store
Threads == {"t1", "t2"}

\* vector_store = None, retriever = None (routers/ai.py:22-23), nobody loading
IndexNotLoaded ==
    /\ vector_store = None
    /\ retriever = None
    /\ loaders = [thread \in Threads |-> "idle"]

\* the process after the import of models.py and before load_vector_store
ProcessStarted ==
    /\ schema = [table_name \in USER_SCOPED_TABLES |-> CreatedTable(table_name)]
    /\ IndexNotLoaded

\* a fresh database, before the first request
EmptyDatabase ==
    /\ now = 0
    /\ goals = EmptyTable
    /\ milestones = EmptyTable
    /\ users = {}
    /\ calendar_items = EmptyTable
    /\ habit_logs = <<>>
    /\ user_preferences = <<>>
    /\ own_preferences = [o \in Owners |-> DefaultPreferences]
    /\ daily_logs = <<>>
    /\ timer_sessions = EmptyTable
    /\ inflight = {}
    /\ last = [op |-> "start", caller |-> "nobody", status |-> 0]
    /\ served = 0
    /\ ProcessStarted

Init == EmptyDatabase /\ secret_configured = TRUE

\* one more request is handled, while the budget of the run lasts
Serve == served < MaxRequests /\ served' = served + 1

Next ==
    \/ Serve /\ CreateGoalReq /\ UNCHANGED <<calendarVars, prefVars, recordVars, processVars>>
    \/ Serve /\ UpdateGoalReq /\ UNCHANGED <<calendarVars, prefVars, recordVars, processVars>>
    \/ Serve /\ UpdateMilestoneReq /\ UNCHANGED <<calendarVars, prefVars, recordVars, processVars>>

Spec == Init /\ [][Next]_vars

\* A stored goal with 1..MaxTotal milestones, the first `done` of them created
\* with completed = true (create_goal stores neither progress nor status), and
\* updates of its first milestone by its owner or by another caller.
LargeGoalId == 0

InitLarge ==
    \E total \in 1..MaxTotal : \E done \in 0..total :
        /\ now = 0
        /\ goals = [g \in {LargeGoalId} |-> NewGoal("A")]
        /\ milestones = [m \in 1..total |->
                            NewMilestone(LargeGoalId, [title |-> NewTitle, completed |-> m <= done])]
        /\ users = {}
        /\ secret_configured = TRUE
        /\ calendar_items = EmptyTable
        /\ habit_logs = <<>>
        /\ user_preferences = <<>>
        /\ own_preferences = [o \in Owners |-> DefaultPreferences]
        /\ daily_logs = <<>>
        /\ timer_sessions = EmptyTable
        /\ inflight = {}
        /\ last = [op |-> "start", caller |-> "nobody", status |-> 0]
        /\ served = 0
        /\ ProcessStarted

UpdateFirstMilestoneReq ==
    \E caller \in Owners, milestone_update \in MilestoneUpdates :
        update_milestone(caller, LargeGoalId, 1, milestone_update, now)

NextLarge == Serve /\ UpdateFirstMilestoneReq /\ UNCHANGED <<calendarVars, prefVars, recordVars, processVars>>

SpecProgress == InitLarge /\ [][NextLarge]_vars

\* ------------------------------------------------- authentication, calendar
\* the Authorization header of a request: absent, a string that does not
\* decode (bad signature, expired, not a JWT), or a token signed with the
\* server's key whose payload has the given sub (or none)
BearerTokens ==
    {[kind |-> k, sub |-> None] : k \in {"none", "garbage"}}
    \cup {[kind |-> "signed", sub |-> s] : s \in Optional(Owners)}

\* (variant) the user named by sub is not looked up
get_current_user_unchecked(token) ==
    IF token.kind = "none" THEN [status |-> 401, email |-> "nobody"]
    ELSE IF ~secret_configured THEN [status |-> 500, email |-> "nobody"]
    ELSE IF token.kind # "signed" THEN [status |-> 401, email |-> "nobody"]
    ELSE IF token.sub = None THEN [status |-> 401, email |-> "nobody"]
    ELSE [status |-> 200, email |-> CHOOSE e \in token.sub : TRUE]

\* Depends(oauth2_scheme), then get_current_user: the status the dependency
\* ends the request with (200: it returns the user)
get_current_user(token) ==
    IF token.kind = "none" THEN [status |-> 401, email |-> "nobody"]
    ELSE IF ~secret_configured THEN [status |-> 500, email |-> "nobody"]
    ELSE IF token.kind # "signed" THEN [status |-> 401, email |-> "nobody"]
    ELSE IF token.sub = None THEN [status |-> 401, email |-> "nobody"]
    ELSE IF ~(token.sub \subseteq users) THEN [status |-> 401, email |-> "nobody"]
    ELSE [status |-> 200, email |-> CHOOSE e \in token.sub : TRUE]

\* POST /register
register_user(email) ==
    /\ UNCHANGED <<now, secret_configured, calendar_items, habit_logs>>
    /\ IF email \in users
       THEN /\ UNCHANGED users
            /\ last' = [op |-> "register_user", caller |-> email, status |-> 400]
       ELSE /\ users' = users \cup {email}
            /\ last' = [op |-> "register_user", caller |-> email, status |-> 200]

\* the rows a completed= filter of GET /calendar/items keeps
MatchesCompleted(row, completed) == completed = None \/ row.completed = completed

\* GET /calendar/items (routers/calendar.py): body is the set of ids returned
get_calendar_items(token, completed) ==
    LET auth == get_current_user(token)
    IN  /\ UNCHANGED <<now, calendarVars>>
        /\ last' = [op |-> "get_calendar_items", caller |-> auth.email,
                    status |-> auth.status, token |-> token,
                    body |-> IF auth.status = 200
                             THEN {i \in DOMAIN calendar_items :
                                      MatchesCompleted(calendar_items[i], completed)}
                             ELSE {}]

\* the start_datetime / start_time values a request may carry
MaxMoment == 4

Moments == 0..MaxMoment

\* CalendarTaskCreate and CalendarEventCreate bodies: a task of category work,
\* a task of category deep-work, an event of category meeting
CalendarItemKinds ==
    {[item_type |-> "task", category |-> "work"],
     [item_type |-> "task", category |-> "deep-work"],
     [item_type |-> "event", category |-> "meeting"]}

CalendarItemCreates ==
    {[item_type |-> k.item_type, category |-> k.category, start_datetime |-> m] :
        k \in CalendarItemKinds, m \in Moments}

\* CalendarItem(id=..., **item.dict()): user_id is not set, completed and the
\* timestamps take the column defaults
NewCalendarItem(caller, item) ==
    [user_id |-> None, title |-> Some(NewTitle), item_type |-> item.item_type,
     category |-> Some(item.category), start_datetime |-> item.start_datetime,
     completed |-> Some(FALSE), created_at |-> ImportTime, updated_at |-> ImportTime,
     creator |-> caller]

\* POST /calendar/items: the id is the clock reading; a taken id fails the commit
create_calendar_item(caller, item, t) ==
    /\ now' = t
    /\ UNCHANGED <<users, secret_configured, habit_logs>>
    /\ IF t \in DOMAIN calendar_items
       THEN /\ UNCHANGED calendar_items
            /\ last' = [op |-> "create_calendar_item", caller |-> caller, status |-> 500]
       ELSE /\ calendar_items' = Put(calendar_items, t, NewCalendarItem(caller, item))
            /\ last' = [op |-> "create_calendar_item", caller |-> caller, status |-> 200,
                        item_id |-> t]

\* GET /calendar/items/{item_id}
get_calendar_item(caller, item_id) ==
    /\ UNCHANGED <<now, calendarVars>>
    /\ last' = IF item_id \notin DOMAIN calendar_items
               THEN [op |-> "get_calendar_item", caller |-> caller, status |-> 404]
               ELSE [op |-> "get_calendar_item", caller |-> caller, status |-> 200,
                     item_id |-> item_id, creator |-> calendar_items[item_id].creator]

\* CalendarItemUpdate bodies, by the fields that are set
CalendarItemUpdates ==
    {EmptyDict, [title |-> Some(RenamedTitle)]} \cup {[completed |-> Some(c)] : c \in BOOLEAN}

\* PUT /calendar/items/{item_id}
update_calendar_item(caller, item_id, item_update, t) ==
    /\ now' = t
    /\ UNCHANGED <<users, secret_configured, habit_logs>>
    /\ IF item_id \notin DOMAIN calendar_items
       THEN /\ UNCHANGED calendar_items
            /\ last' = [op |-> "update_calendar_item", caller |-> caller, status |-> 404]
       ELSE /\ calendar_items' =
                  [calendar_items EXCEPT ![item_id] =
                      [SetFields(calendar_items[item_id], item_update) EXCEPT !.updated_at = t]]
            /\ last' = [op |-> "update_calendar_item", caller |-> caller, status |-> 200,
                        item_id |-> item_id, creator |-> calendar_items[item_id].creator]

\* DELETE /calendar/items/{item_id}
delete_calendar_item(caller, item_id) ==
    /\ UNCHANGED <<now, users, secret_configured, habit_logs>>
    /\ IF item_id \notin DOMAIN calendar_items
       THEN /\ UNCHANGED calendar_items
            /\ last' = [op |-> "delete_calendar_item", caller |-> caller, status |-> 404]
       ELSE /\ calendar_items' = [i \in DOMAIN calendar_items \ {item_id} |-> calendar_items[i]]
            /\ last' = [op |-> "delete_calendar_item", caller |-> caller, status |-> 200,
                        item_id |-> item_id, creator |-> calendar_items[item_id].creator]

\* POST /logs: the id is the next integer, the timestamp the clock reading
create_legacy_log(caller, t) ==
    /\ now' = t
    /\ UNCHANGED <<users, secret_configured, calendar_items>>
    /\ habit_logs' = Append(habit_logs, [user_id |-> None, habit |-> "sleep",
                                         timestamp |-> t, creator |-> caller])
    /\ last' = [op |-> "create_legacy_log", caller |-> caller, status |-> 200,
                id |-> Len(habit_logs) + 1]

\* GET /logs?days=: the ids of the logs whose timestamp is within the window
get_legacy_logs(caller, days, t) ==
    /\ now' = t
    /\ UNCHANGED calendarVars
    /\ last' = [op |-> "get_legacy_logs", caller |-> caller, status |-> 200,
                body |-> {i \in 1..Len(habit_logs) : habit_logs[i].timestamp >= t - days}]

\* the days= windows requested: none, one day, the default
DefaultDays == 30

DaysInputs == {0, 1, DefaultDays}

InitCalendar == EmptyDatabase /\ secret_configured \in BOOLEAN

NextCalendar ==
    \/ Serve /\ UNCHANGED <<goalVars, prefVars, recordVars, processVars>>
             /\ \E email \in Owners : register_user(email)
    \/ Serve /\ UNCHANGED <<goalVars, prefVars, recordVars, processVars>>
             /\ \E token \in BearerTokens, completed \in Optional(BOOLEAN) :
                    get_calendar_items(token, completed)
    \/ Serve /\ UNCHANGED <<goalVars, prefVars, recordVars, processVars>>
             /\ \E caller \in Owners, t \in ClockReads(now) :
                    \E item \in {c \in CalendarItemCreates :
                                    c.item_type = "task" /\ c.start_datetime = 0} :
                        create_calendar_item(caller, item, t)
    \/ Serve /\ UNCHANGED <<goalVars, prefVars, recordVars, processVars>>
             /\ \E caller \in Owners, item_id \in IdInputs : get_calendar_item(caller, item_id)
    \/ Serve /\ UNCHANGED <<goalVars, prefVars, recordVars, processVars>>
             /\ \E caller \in Owners, item_id \in IdInputs :
                    \E item_update \in CalendarItemUpdates, t \in ClockReads(now) :
                        update_calendar_item(caller, item_id, item_update, t)
    \/ Serve /\ UNCHANGED <<goalVars, prefVars, recordVars, processVars>>
             /\ \E caller \in Owners, item_id \in IdInputs : delete_calendar_item(caller, item_id)
    \/ Serve /\ UNCHANGED <<goalVars, prefVars, recordVars, processVars>>
             /\ \E caller \in Owners, t \in ClockReads(now) : create_legacy_log(caller, t)
    \/ Serve /\ UNCHANGED <<goalVars, prefVars, recordVars, processVars>>
             /\ \E caller \in Owners, days \in DaysInputs, t \in ClockReads(now) :
                    get_legacy_logs(caller, days, t)

SpecCalendar == InitCalendar /\ [][NextCalendar]_vars

\* ------------------------------------------------------------- preferences
DefaultUser == "default_user"

\* the rows of user_preferences that the query of both handlers matches
DefaultUserRows == {i \in 1..Len(user_preferences) : user_preferences[i].user_id = DefaultUser}

\* .first(): the matching row with the lowest id
FirstRow(rows) == CHOOSE i \in rows : \A j \in rows : i <= j

\* the fields of a row that a UserPreferencesResponse carries
PreferencesBody(row) ==
    [default_calendar_view |-> row.default_calendar_view,
     default_pomodoro_duration |-> row.default_pomodoro_duration]

\* UserPreferencesUpdate bodies, by the fields that are set
PreferencesUpdates ==
    {EmptyDict, [default_calendar_view |-> Some("week")],
     [default_pomodoro_duration |-> Some(45)],
     [default_calendar_view |-> Some("day"), default_pomodoro_duration |-> Some(45)]}

\* GET /preferences
get_user_preferences(caller) ==
    /\ UNCHANGED <<now, own_preferences>>
    /\ IF DefaultUserRows = {}
       THEN LET prefs == [user_id |-> DefaultUser,
                          default_calendar_view |-> Some(DefaultCalendarView),
                          default_pomodoro_duration |-> Some(DefaultPomodoroDuration),
                          updated_at |-> ImportTime]
            IN  /\ user_preferences' = Append(user_preferences, prefs)
                /\ last' = [op |-> "get_user_preferences", caller |-> caller, status |-> 200,
                            body |-> PreferencesBody(prefs)]
       ELSE /\ UNCHANGED user_preferences
            /\ last' = [op |-> "get_user_preferences", caller |-> caller, status |-> 200,
                        body |-> PreferencesBody(user_preferences[FirstRow(DefaultUserRows)])]

\* PUT /preferences. own_preferences records what the caller has saved.
update_user_preferences(caller, prefs_update, t) ==
    /\ now' = t
    /\ IF DefaultUserRows = {}
       THEN /\ UNCHANGED prefVars
            /\ last' = [op |-> "update_user_preferences", caller |-> caller, status |-> 404]
       ELSE LET id == FirstRow(DefaultUserRows)
                prefs == [SetFields(user_preferences[id], prefs_update) EXCEPT !.updated_at = t]
            IN  /\ user_preferences' = [user_preferences EXCEPT ![id] = prefs]
                /\ own_preferences' = [own_preferences EXCEPT ![caller] =
                                          SetFields(own_preferences[caller], prefs_update)]
                /\ last' = [op |-> "update_user_preferences", caller |-> caller,
                            status |-> 200, body |-> PreferencesBody(prefs)]

NextPrefs ==
    \/ Serve /\ UNCHANGED <<goalVars, calendarVars, recordVars, processVars>>
             /\ \E caller \in Owners : get_user_preferences(caller)
    \/ Serve /\ UNCHANGED <<goalVars, calendarVars, recordVars, processVars>>
             /\ \E caller \in Owners, prefs_update \in PreferencesUpdates, t \in ClockReads(now) :
                    update_user_preferences(caller, prefs_update, t)

SpecPrefs == Init /\ [][NextPrefs]_vars

\* -------------------------------------------------------------- daily logs
\* the calendar dates and times of day a log_date is drawn from
MaxDay == 1

Days == 0..MaxDay

Midnight == "00:00"

TimesOfDay == {Midnight, "08:00"}

\* DailyLogCreate bodies: log_date is a datetime, gym_completed defaults to False
DailyLogCreates == [log_date : [day : Days, time : TimesOfDay]]

\* log.log_date.date(), as it is bound to the DateTime column: the date at 00:00
DateParameter(log_date) == [day |-> log_date.day, time |-> Midnight]

\* the rows that the existence query of create_daily_log matches
ExistingLogs(log_date) ==
    {i \in 1..Len(daily_logs) : daily_logs[i].log_date = DateParameter(log_date)}

\* DailyLog(**log.dict()): user_id is not set
NewDailyLog(caller, log) ==
    [user_id |-> None, log_date |-> log.log_date, sleep_hours |-> None, mood |-> None,
     gym_completed |-> Some(FALSE), updated_at |-> ImportTime, creator |-> caller]

\* the rest of create_daily_log, once the existence query has answered
commit_daily_log(caller, log, found) ==
    LET answer(code) == [op |-> "create_daily_log", caller |-> caller, status |-> code,
                         log_date |-> log.log_date]
    IN  IF found
        THEN /\ UNCHANGED daily_logs
             /\ last' = answer(400)
        ELSE /\ daily_logs' = Append(daily_logs, NewDailyLog(caller, log))
             /\ last' = answer(200)

\* POST /logs/daily, handled without another request in between
create_daily_log(caller, log) ==
    /\ UNCHANGED <<now, timer_sessions, inflight>>
    /\ commit_daily_log(caller, log, ExistingLogs(log.log_date) # {})

\* DailyLogUpdate bodies, by the fields that are set
DailyLogUpdates == {EmptyDict} \cup {[gym_completed |-> Some(c)] : c \in BOOLEAN}

\* PUT /logs/daily/{log_id}
update_daily_log(caller, log_id, log_update, t) ==
    /\ now' = t
    /\ UNCHANGED <<timer_sessions, inflight>>
    /\ IF log_id \notin 1..Len(daily_logs)
       THEN /\ UNCHANGED daily_logs
            /\ last' = [op |-> "update_daily_log", caller |-> caller, status |-> 404]
       ELSE /\ daily_logs' = [daily_logs EXCEPT ![log_id] =
                                 [SetFields(daily_logs[log_id], log_update) EXCEPT !.updated_at = t]]
            /\ last' = [op |-> "update_daily_log", caller |-> caller, status |-> 200,
                        log_id |-> log_id, creator |-> daily_logs[log_id].creator]

\* ids a request may name in daily_logs: taken or not
LogIdInputs == 1..MaxRequests

NextLogs ==
    \/ Serve /\ UNCHANGED <<goalVars, calendarVars, prefVars, processVars>>
             /\ \E caller \in Owners, log \in DailyLogCreates : create_daily_log(caller, log)
    \/ Serve /\ UNCHANGED <<goalVars, calendarVars, prefVars, processVars>>
             /\ \E caller \in Owners, log_id \in LogIdInputs :
                    \E log_update \in DailyLogUpdates, t \in ClockReads(now) :
                        update_daily_log(caller, log_id, log_update, t)

SpecLogs == Init /\ [][NextLogs]_vars

\* ------------------------------------------------- requests that interleave
\* Each request runs in its own thread with its own session: its query and its
\* commit are two steps, and other requests may take steps in between.

\* the rows a GET or PUT /preferences made for this owner works on: the
\* handlers take no owner, every caller gets the rows of DefaultUser
PreferencesRowsOf(owner) == DefaultUserRows

\* lines 671-675 of get_user_preferences: the query, and what it found
query_user_preferences(caller) ==
    /\ inflight' = inflight \cup {[id |-> served + 1, op |-> "get_user_preferences",
                                   caller |-> caller, found |-> DefaultUserRows # {}]}
    /\ UNCHANGED <<now, last, prefVars, daily_logs, timer_sessions>>

\* lines 676-683 of get_user_preferences: a request that found no row adds one
commit_user_preferences(request) ==
    LET prefs == [user_id |-> DefaultUser,
                  default_calendar_view |-> Some(DefaultCalendarView),
                  default_pomodoro_duration |-> Some(DefaultPomodoroDuration),
                  updated_at |-> ImportTime]
    IN  /\ inflight' = inflight \ {request}
        /\ UNCHANGED <<now, own_preferences, daily_logs, timer_sessions>>
        /\ IF request.found
           THEN /\ UNCHANGED user_preferences
                /\ last' = [op |-> "get_user_preferences", caller |-> request.caller,
                            status |-> 200,
                            body |-> PreferencesBody(user_preferences[FirstRow(DefaultUserRows)])]
           ELSE /\ user_preferences' = Append(user_preferences, prefs)
                /\ last' = [op |-> "get_user_preferences", caller |-> request.caller,
                            status |-> 200, body |-> PreferencesBody(prefs)]

\* the existence query of create_daily_log, and what it found
query_daily_log(caller, log) ==
    /\ inflight' = inflight \cup {[id |-> served + 1, op |-> "create_daily_log",
                                   caller |-> caller, log |-> log,
                                   found |-> ExistingLogs(log.log_date) # {}]}
    /\ UNCHANGED <<now, last, prefVars, daily_logs, timer_sessions>>

NextConcurrent ==
    \/ Serve /\ UNCHANGED <<goalVars, calendarVars, processVars>>
             /\ \E caller \in Owners : query_user_preferences(caller)
    \/ UNCHANGED <<served, goalVars, calendarVars, processVars>>
             /\ \E request \in inflight :
                    /\ request.op = "get_user_preferences"
                    /\ commit_user_preferences(request)
    \/ Serve /\ UNCHANGED <<goalVars, calendarVars, processVars>>
             /\ \E caller \in Owners, log \in DailyLogCreates : query_daily_log(caller, log)
    \/ UNCHANGED <<served, goalVars, calendarVars, processVars>>
             /\ \E request \in inflight :
                    /\ request.op = "create_daily_log"
                    /\ inflight' = inflight \ {request}
                    /\ UNCHANGED <<now, prefVars, timer_sessions, processVars>>
                    /\ commit_daily_log(request.caller, request.log, request.found)

SpecConcurrent == Init /\ [][NextConcurrent]_vars

\* --------------------------------------------------------------- analytics
\* moments per day: a window can be shorter than a day without being empty
DayLength == 2

\* timedelta(days=30), the default window of get_productivity_stats
StatsDefaultDays == 30

\* the duration of every stored timer session, in minutes
SessionMinutes == 25

Max(a, b) == IF a >= b THEN a ELSE b

\* round(num / den, digits) as a count of units of 10^-digits (scale = 10^digits),
\* halves to the even neighbour
Rounded(num, den, scale) ==
    LET q == (num * scale) \div den
        r == (num * scale) % den
    IN  IF 2 * r > den \/ (2 * r = den /\ q % 2 = 1) THEN q + 1 ELSE q

\* (variant) an inverted range is queried as it was given
WindowAsGiven(start_date, end_date, t) ==
    [start |-> IF start_date = None THEN t - (StatsDefaultDays * DayLength)
               ELSE CHOOSE m \in start_date : TRUE,
     end |-> IF end_date = None THEN t ELSE CHOOSE m \in end_date : TRUE]

\* lines 721-731: each absent bound gets its own default, then the swap
WindowOf(start_date, end_date, t) ==
    LET first == IF start_date = None THEN t - (StatsDefaultDays * DayLength)
                 ELSE CHOOSE m \in start_date : TRUE
        second == IF end_date = None THEN t ELSE CHOOSE m \in end_date : TRUE
    IN  IF first > second THEN [start |-> second, end |-> first]
        ELSE [start |-> first, end |-> second]

\* lines 735-742: the calendar items of the window, of every owner
SelectedItems(window) ==
    {i \in DOMAIN calendar_items :
        /\ calendar_items[i].start_datetime >= window.start
        /\ calendar_items[i].start_datetime <= window.end}

\* lines 744-752: the completed timer sessions of the window, of every owner
SelectedSessions(window) ==
    {i \in DOMAIN timer_sessions :
        /\ timer_sessions[i].start_time >= window.start
        /\ timer_sessions[i].start_time <= window.end
        /\ timer_sessions[i].completed = Some(TRUE)}

\* sum(s.duration for s in sessions if s.duration)
RECURSIVE TotalDuration(_)
TotalDuration(sessions) ==
    IF sessions = {} THEN 0
    ELSE LET one == CHOOSE i \in sessions : TRUE
         IN  timer_sessions[one].duration + TotalDuration(sessions \ {one})

\* item.category or "uncategorized"
CategoryLabel(category) ==
    IF category = None \/ category = Some("") THEN "uncategorized"
    ELSE CHOOSE c \in category : TRUE

\* (variant) only the tasks are counted
CategoryBreakdownOfTasks(items) ==
    LET tasks == {i \in items : calendar_items[i].item_type = "task"}
    IN  [label \in {CategoryLabel(calendar_items[i].category) : i \in tasks} |->
            Cardinality({i \in tasks : CategoryLabel(calendar_items[i].category) = label})]

\* lines 774-778
CategoryBreakdown(items) ==
    [label \in {CategoryLabel(calendar_items[i].category) : i \in items} |->
        Cardinality({i \in items : CategoryLabel(calendar_items[i].category) = label})]

\* (variant) the whole days of the window, not clamped
WholeDays(window) == (window.end - window.start) \div DayLength

\* line 782: max((end_date - start_date).days, 1)
DaysInRange(window) == Max((window.end - window.start) \div DayLength, 1)

\* lines 756-813: the response for a window; rates in thousandths, averages in
\* hundredths
StatsOver(window) ==
    LET items == SelectedItems(window)
        sessions == SelectedSessions(window)
        tasks == {i \in items : calendar_items[i].item_type = "task"}
        completed_tasks == {i \in tasks : Truthy(calendar_items[i].completed)}
        events == {i \in items : calendar_items[i].item_type = "event"}
        total_focus_time == TotalDuration(sessions)
        days_in_range == DaysInRange(window)
    IN  [total_tasks |-> Cardinality(tasks),
         completed_tasks |-> Cardinality(completed_tasks),
         total_events |-> Cardinality(events),
         total_focus_time_minutes |-> total_focus_time,
         total_deep_work_minutes |->
             TotalDuration({i \in sessions : timer_sessions[i].category = "deep-work"}),
         completion_rate |-> IF tasks # {}
                             THEN Rounded(Cardinality(completed_tasks), Cardinality(tasks), 1000)
                             ELSE 0,
         category_breakdown |-> CategoryBreakdown(items),
         daily_averages |->
             [tasks_per_day |-> Rounded(Cardinality(tasks), days_in_range, 100),
              events_per_day |-> Rounded(Cardinality(events), days_in_range, 100),
              focus_minutes_per_day |-> Rounded(total_focus_time, days_in_range, 100)]]

\* (variant) the handler keeps a preferences row up to date while it reads
get_productivity_stats_writing(caller, start_date, end_date, t) ==
    /\ now' = t
    /\ UNCHANGED <<calendar_items, timer_sessions, daily_logs, own_preferences>>
    /\ user_preferences' = Append(user_preferences,
                                  [user_id |-> DefaultUser,
                                   default_calendar_view |-> Some(DefaultCalendarView),
                                   default_pomodoro_duration |-> Some(DefaultPomodoroDuration),
                                   updated_at |-> t])
    /\ last' = [op |-> "get_productivity_stats", caller |-> caller, status |-> 200,
                start_date |-> start_date, end_date |-> end_date,
                body |-> StatsOver(WindowOf(start_date, end_date, t))]

\* GET /analytics/productivity. A division by zero days would end the request
\* with 500.
get_productivity_stats(caller, start_date, end_date, t) ==
    LET window == WindowOf(start_date, end_date, t)
    IN  /\ now' = t
        /\ UNCHANGED <<calendar_items, timer_sessions, daily_logs, prefVars>>
        /\ last' = IF DaysInRange(window) = 0
                   THEN [op |-> "get_productivity_stats", caller |-> caller, status |-> 500,
                         start_date |-> start_date, end_date |-> end_date]
                   ELSE [op |-> "get_productivity_stats", caller |-> caller, status |-> 200,
                         start_date |-> start_date, end_date |-> end_date,
                         body |-> StatsOver(window)]

\* the moment of a log_date: DayLength moments per day, 08:00 is the second
MomentOf(log_date) ==
    (log_date.day * DayLength) + (IF log_date.time = Midnight THEN 0 ELSE 1)

\* `if l.sleep_hours` / `if l.mood`: None and 0 are both falsy
NonZero(value) == value # None /\ value # Some(0)

\* sum(...) of the values of a column over a set of rows
RECURSIVE SumOver(_, _)
SumOver(column, rows) ==
    IF rows = {} THEN 0
    ELSE LET one == CHOOSE i \in rows : TRUE
         IN  (CHOOSE v \in column[one] : TRUE) + SumOver(column, rows \ {one})

\* sum(values) / len(values) if values else 0, as `:.1f` prints it: in tenths
AverageOf(column, rows) ==
    IF rows = {} THEN 0 ELSE Rounded(SumOver(column, rows), Cardinality(rows), 10)

\* lines 59-65: (completed / total * 100) if total else 0, as `:.1f` prints it:
\* in tenths of a percent. Below 16 milestones no quotient is half a tenth away
\* from a printed value, so the rounding of the double does not show.
DigestProgress(completed, total) ==
    IF total # 0 THEN Rounded(100 * completed, total, 10) ELSE 0

\* lines 79-101: the HABITS section over the selected daily logs
HabitsOf(logs) ==
    LET sleep_hours == [i \in logs |-> daily_logs[i].sleep_hours]
        mood == [i \in logs |-> daily_logs[i].mood]
    IN  [avg_sleep |-> AverageOf(sleep_hours, {i \in logs : NonZero(sleep_hours[i])}),
         avg_mood |-> AverageOf(mood, {i \in logs : NonZero(mood[i])}),
         gym_days |-> Cardinality({i \in logs : Truthy(daily_logs[i].gym_completed)}),
         days |-> Cardinality(logs)]

\* get_user_productivity_data(db, user_id, days): the figures of the digest.
\* Every query filters on user_id == user_id; the HABITS section is written
\* only when a daily log was selected.
get_user_productivity_data(user_id, days, t) ==
    LET since == t - (days * DayLength)
        items == {i \in DOMAIN calendar_items :
                     /\ calendar_items[i].user_id = Some(user_id)
                     /\ calendar_items[i].created_at >= since}
        sessions == {i \in DOMAIN timer_sessions :
                        /\ timer_sessions[i].user_id = Some(user_id)
                        /\ timer_sessions[i].start_time >= since
                        /\ Truthy(timer_sessions[i].completed)}
        logs == {i \in 1..Len(daily_logs) :
                    /\ daily_logs[i].user_id = Some(user_id)
                    /\ MomentOf(daily_logs[i].log_date) >= since}
        tasks == {i \in items : calendar_items[i].item_type = "task"}
    IN  /\ now' = t
        /\ UNCHANGED <<calendar_items, timer_sessions, daily_logs, prefVars>>
        /\ last' = [op |-> "get_user_productivity_data", caller |-> user_id, status |-> 200,
                    days |-> days,
                    body |-> [task_count |-> Cardinality(tasks),
                              completed_tasks |->
                                  Cardinality({i \in tasks : Truthy(calendar_items[i].completed)}),
                              total_events |-> Cardinality(items \ tasks),
                              goals |->
                                  [g \in {k \in DOMAIN goals : goals[k].user_id = Some(user_id)} |->
                                      DigestProgress(Cardinality(CompletedOf(milestones, g)),
                                                     Cardinality(MilestonesOf(milestones, g)))],
                              sessions |-> Cardinality(sessions),
                              total_focus_time |-> TotalDuration(sessions),
                              habits |-> IF logs = {} THEN None ELSE Some(HabitsOf(logs))]]

\* the rows in store when the statistics are asked for
MaxRows == 2

\* a calendar item as create_calendar_item and update_calendar_item leave it:
\* the deep-work tasks are the completed ones; items start at moment 1 or at
\* the last moment
StoredItems ==
    {[NewCalendarItem(creator, item) EXCEPT !.completed = Some(item.category = "deep-work")] :
        creator \in Owners,
        item \in {c \in CalendarItemCreates : c.start_datetime \in {1, MaxMoment}}}

\* TimerSession(id=..., **session.dict()): user_id is not set, completed and
\* created_calendar_entry take the column default, there is no linked item
NewTimerSession(caller, session) ==
    [user_id |-> None, category |-> session.category, start_time |-> session.start_time,
     duration |-> SessionMinutes, completed |-> Some(FALSE),
     created_calendar_entry |-> Some(FALSE), calendar_item_id |-> None, creator |-> caller]

\* a timer session as create_timer_session and update_timer_session leave it,
\* started at the first or at the last moment
StoredSessions ==
    {[NewTimerSession(creator, [category |-> kind.category, start_time |-> m]) EXCEPT
          !.completed = Some(kind.completed)] :
        creator \in Owners, m \in {0, MaxMoment},
        kind \in {[category |-> "deep-work", completed |-> TRUE],
                  [category |-> "work", completed |-> TRUE],
                  [category |-> "deep-work", completed |-> FALSE]}}

InitStats ==
    \E n \in 0..MaxRows : \E k \in 0..(MaxRows - n) :
        /\ calendar_items \in [1..n -> StoredItems]
        /\ timer_sessions \in [1..k -> StoredSessions]
        /\ now = MaxTime
        /\ goals = EmptyTable
        /\ milestones = EmptyTable
        /\ users = {}
        /\ secret_configured = TRUE
        /\ habit_logs = <<>>
        /\ user_preferences = <<>>
        /\ own_preferences = [o \in Owners |-> DefaultPreferences]
        /\ daily_logs = <<>>
        /\ inflight = {}
        /\ last = [op |-> "start", caller |-> "nobody", status |-> 0]
        /\ served = 0
        /\ ProcessStarted

\* the bounds a statistics request may give: the first moment, one less than a
\* day later, the last moment
WindowMoments == {0, 1, MaxMoment}

\* the days= values of the digest: none, the default of ask_ai
DigestDays == {0, StatsDefaultDays}

NextStats ==
    \/ /\ UNCHANGED <<served, goalVars, users, secret_configured, habit_logs, inflight, processVars>>
       /\ \E caller \in Owners :
              \E start_date \in Optional(WindowMoments), end_date \in Optional(WindowMoments) :
                  get_productivity_stats(caller, start_date, end_date, now)
    \/ /\ UNCHANGED <<served, goalVars, users, secret_configured, habit_logs, inflight, processVars>>
       /\ \E user_id \in Owners, days \in DigestDays :
              get_user_productivity_data(user_id, days, now)

SpecStats == InitStats /\ [][NextStats]_vars

\* ------------------------------------------------------------------ digest
\* the milestones of the goal in store when the digest is asked for
MaxDigestMilestones == 3

\* whose a stored row is: created by an owner, with user_id either left
\* unset (as every handler leaves it) or set to that owner
OwnedOrNot ==
    {[creator |-> o, user_id |-> u] : o \in Owners, u \in {None}} \cup
    {[creator |-> o, user_id |-> Some(o)] : o \in Owners}

\* the habit values of a stored daily log, as DailyLogCreate admits them:
\* nothing recorded; no sleep at all, mood 4, gym; 8 hours and no mood; 8 hours,
\* mood 8, gym
StoredHabits ==
    {[sleep_hours |-> None, mood |-> None, gym_completed |-> FALSE],
     [sleep_hours |-> Some(0), mood |-> Some(4), gym_completed |-> TRUE],
     [sleep_hours |-> Some(8), mood |-> None, gym_completed |-> FALSE],
     [sleep_hours |-> Some(8), mood |-> Some(8), gym_completed |-> TRUE]}

\* a daily log at midnight of a day, with the habits recorded for it
StoredLogs ==
    {[NewDailyLog(row.creator, [log_date |-> [day |-> d, time |-> Midnight]]) EXCEPT
          !.user_id = row.user_id, !.sleep_hours = h.sleep_hours, !.mood = h.mood,
          !.gym_completed = Some(h.gym_completed)] :
        row \in OwnedOrNot, d \in Days, h \in StoredHabits}

\* up to MaxRows daily logs and at most one goal, with 0..MaxDigestMilestones
\* milestones of which the first `done` are completed
InitDigest ==
    \E n \in 0..MaxRows, total \in 0..MaxDigestMilestones, row \in OwnedOrNot :
        \E done \in 0..total, stored \in BOOLEAN :
            /\ daily_logs \in [1..n -> StoredLogs]
            /\ goals = IF stored
                       THEN [g \in {LargeGoalId} |->
                                [NewGoal(row.creator) EXCEPT !.user_id = row.user_id]]
                       ELSE EmptyTable
            /\ milestones = IF stored
                            THEN [m \in 1..total |->
                                     NewMilestone(LargeGoalId,
                                                  [title |-> NewTitle, completed |-> m <= done])]
                            ELSE EmptyTable
            /\ now = MaxTime
            /\ calendar_items = EmptyTable
            /\ timer_sessions = EmptyTable
            /\ users = {}
            /\ secret_configured = TRUE
            /\ habit_logs = <<>>
            /\ user_preferences = <<>>
            /\ own_preferences = [o \in Owners |-> DefaultPreferences]
            /\ inflight = {}
            /\ last = [op |-> "start", caller |-> "nobody", status |-> 0]
            /\ served = 0
            /\ ProcessStarted

NextDigest ==
    /\ UNCHANGED <<served, goalVars, users, secret_configured, habit_logs, inflight, processVars>>
    /\ \E user_id \in Owners, days \in DigestDays :
           get_user_productivity_data(user_id, days, now)

SpecDigest == InitDigest /\ [][NextDigest]_vars

\* ------------------------------------------------------------------ timer
\* TimerSessionCreate bodies
TimerSessionCreates == {[category |-> c, start_time |-> 0] : c \in {"deep-work", "work"}}

\* POST /timer/sessions: the id is timer_{clock reading}; a taken id fails the
\* commit
create_timer_session(caller, session, t) ==
    /\ now' = t
    /\ UNCHANGED <<calendar_items, daily_logs, inflight>>
    /\ IF t \in DOMAIN timer_sessions
       THEN /\ UNCHANGED timer_sessions
            /\ last' = [op |-> "create_timer_session", caller |-> caller, status |-> 500]
       ELSE /\ timer_sessions' = Put(timer_sessions, t, NewTimerSession(caller, session))
            /\ last' = [op |-> "create_timer_session", caller |-> caller, status |-> 200,
                        session_id |-> t]

\* TimerSessionUpdate bodies, by the fields that are set; calendar_item_id may
\* be set to null
TimerSessionUpdates ==
    {EmptyDict,
     [completed |-> Some(TRUE)],
     [completed |-> Some(TRUE), created_calendar_entry |-> Some(TRUE)],
     [completed |-> Some(FALSE), created_calendar_entry |-> Some(TRUE)],
     [calendar_item_id |-> None],
     [completed |-> Some(TRUE), created_calendar_entry |-> Some(TRUE),
      calendar_item_id |-> None]}

\* f"task_{session_id}"
TaskId(session_id) == <<"task", session_id>>

\* session_update.completed and session_update.created_calendar_entry: the
\* values of the body, None when unset
AutoCreateAsked(session_update) ==
    /\ "completed" \in DOMAIN session_update
    /\ Truthy(session_update.completed)
    /\ "created_calendar_entry" \in DOMAIN session_update
    /\ Truthy(session_update.created_calendar_entry)

\* PUT /timer/sessions/{session_id}. The body is applied first, so the test of
\* calendar_item_id sees the value of the body when it carries one; a task id
\* that is taken fails the commit, and the request ends with 500 and a
\* rolled-back session.
update_timer_session(caller, session_id, session_update) ==
    LET answer(code) == [op |-> "update_timer_session", caller |-> caller, status |-> code,
                         session_id |-> session_id, update |-> session_update]
    IN  /\ UNCHANGED <<now, daily_logs, inflight>>
        /\ IF session_id \notin DOMAIN timer_sessions
           THEN /\ UNCHANGED <<timer_sessions, calendar_items>>
                /\ last' = answer(404)
           ELSE LET db_session == SetFields(timer_sessions[session_id], session_update)
                    calendar_task ==
                        [NewCalendarItem(caller, [item_type |-> "task",
                                                  category |-> db_session.category,
                                                  start_datetime |-> db_session.start_time])
                            EXCEPT !.completed = Some(TRUE)]
                IN  IF AutoCreateAsked(session_update) /\ db_session.calendar_item_id = None
                    THEN IF TaskId(session_id) \in DOMAIN calendar_items
                         THEN /\ UNCHANGED <<timer_sessions, calendar_items>>
                              /\ last' = answer(500)
                         ELSE /\ calendar_items' =
                                     Put(calendar_items, TaskId(session_id), calendar_task)
                              /\ timer_sessions' =
                                     [timer_sessions EXCEPT ![session_id] =
                                         [db_session EXCEPT
                                             !.calendar_item_id = Some(TaskId(session_id))]]
                              /\ last' = answer(200)
                    ELSE /\ UNCHANGED calendar_items
                         /\ timer_sessions' = [timer_sessions EXCEPT ![session_id] = db_session]
                         /\ last' = answer(200)

NextTimer ==
    \/ Serve /\ UNCHANGED <<goalVars, users, secret_configured, habit_logs, prefVars, processVars>>
             /\ \E caller \in Owners, session \in TimerSessionCreates, t \in ClockReads(now) :
                    create_timer_session(caller, session, t)
    \/ Serve /\ UNCHANGED <<goalVars, users, secret_configured, habit_logs, prefVars, processVars>>
             /\ \E caller \in Owners, session_id \in IdInputs :
                    \E session_update \in TimerSessionUpdates :
                        update_timer_session(caller, session_id, session_update)

SpecTimer == Init /\ [][NextTimer]_vars

\* ------------------------------------------------------------------ batch
\* the items of one batch request
MaxBatch == 2

\* BatchCalendarItemCreate.items: up to MaxBatch bodies, each a task of category
\* work, a task of category deep-work or an event, starting at the first moment
BatchCreates ==
    UNION {[1..n -> {c \in CalendarItemCreates : c.start_datetime = 0}] : n \in 0..MaxBatch}

\* f"batch_{i}_{datetime.utcnow().timestamp()}", i counting from 0
BatchId(i, t) == <<"batch", i - 1, t>>

\* POST /calendar/items/batch. reads[i] is the clock reading in the id of item
\* i. The flush of an item whose id is taken fails and rolls the transaction
\* back; the session then refuses every later flush until the rollback of line
\* 133, so that item and all after it are in `errors`, and the items flushed
\* before it stay in `created`.
create_calendar_items_batch(caller, items, reads) ==
    LET ids == [i \in 1..Len(items) |-> BatchId(i, reads[i])]
        failed == {i \in 1..Len(items) : \E j \in 1..i : ids[j] \in DOMAIN calendar_items}
        created == [i \in 1..(Len(items) - Cardinality(failed)) |-> ids[i]]
        added == [k \in {ids[i] : i \in 1..Len(items)} |->
                     NewCalendarItem(caller, items[CHOOSE i \in 1..Len(items) : ids[i] = k])]
    IN  /\ now' = IF Len(reads) = 0 THEN now ELSE reads[Len(reads)]
        /\ UNCHANGED <<users, secret_configured, habit_logs>>
        /\ calendar_items' =
               IF failed = {}
               THEN [k \in DOMAIN calendar_items \cup DOMAIN added |->
                        IF k \in DOMAIN added THEN added[k] ELSE calendar_items[k]]
               ELSE calendar_items
        /\ last' = [op |-> "create_calendar_items_batch", caller |-> caller, status |-> 200,
                    items |-> Len(items), created |-> created, errors |-> failed]

NextBatch ==
    Serve /\ UNCHANGED <<goalVars, prefVars, recordVars, processVars>>
          /\ \E caller \in Owners, items \in BatchCreates :
                 \E reads \in IF Len(items) = 0 THEN {<<>>} ELSE ReadSeqs(now, Len(items)) :
                     create_calendar_items_batch(caller, items, reads)

SpecBatch == Init /\ [][NextBatch]_vars

\* -------------------------------------------------------------- migrations
\* (variant) the column is added without looking
has_column_unchecked(table, column_name) == FALSE

\* PRAGMA table_info / index_list, as _has_column and _has_index read them
has_column(table, column_name) == column_name \in table.columns

has_index(table, index_name) == index_name \in table.indexes

\* ALTER TABLE ... ADD COLUMN: an error (None) when the column exists
AddColumn(table, column_name) ==
    IF column_name \in table.columns THEN None
    ELSE Some([table EXCEPT !.columns = @ \cup {column_name}])

\* CREATE INDEX: an error (None) when the index exists
CreateIndex(table, index_name) ==
    IF index_name \in table.indexes THEN None
    ELSE Some([table EXCEPT !.indexes = @ \cup {index_name}])

\* lines 30-35 for one table: the table afterwards, or None when a statement
\* failed
MigratedTable(table_name, table) ==
    LET altered == IF ~has_column(table, "user_id") THEN AddColumn(table, "user_id")
                   ELSE Some(table)
    IN  IF altered = None THEN None
        ELSE LET with_column == CHOOSE t \in altered : TRUE
             IN  IF ~has_index(with_column, IndexName(table_name))
                 THEN CreateIndex(with_column, IndexName(table_name))
                 ELSE Some(with_column)

\* run_startup_migrations: one transaction (engine.begin()) over every table;
\* a failed statement raises and rolls all of it back
run_startup_migrations ==
    LET migrated == [table_name \in USER_SCOPED_TABLES |->
                        MigratedTable(table_name, schema[table_name])]
        failed == \E table_name \in USER_SCOPED_TABLES : migrated[table_name] = None
        after == [table_name \in USER_SCOPED_TABLES |->
                     CHOOSE t \in migrated[table_name] : TRUE]
    IN  /\ schema' = IF failed THEN schema ELSE after
        /\ last' = [op |-> "run_startup_migrations", caller |-> "startup",
                    status |-> IF failed THEN 500 ELSE 200,
                    changed |-> ~failed /\ after # schema]

\* a table of a database file older than the user_id columns, one whose column
\* was added without the index, and one that has both
TableStates(table_name) ==
    {[columns |-> {"id"}, indexes |-> {}],
     [columns |-> {"id", "user_id"}, indexes |-> {}],
     CreatedTable(table_name)}

\* a database with a goal and its milestone in store, every user-scoped table
\* in any of its states
InitMigrations ==
    /\ schema \in [USER_SCOPED_TABLES -> UNION {TableStates(n) : n \in USER_SCOPED_TABLES}]
    /\ \A table_name \in USER_SCOPED_TABLES : schema[table_name] \in TableStates(table_name)
    /\ IndexNotLoaded
    /\ now = 0
    /\ goals = [g \in {LargeGoalId} |-> NewGoal("A")]
    /\ milestones = [m \in {1} |->
                        NewMilestone(LargeGoalId, [title |-> NewTitle, completed |-> FALSE])]
    /\ users = {}
    /\ secret_configured = TRUE
    /\ calendar_items = EmptyTable
    /\ habit_logs = <<>>
    /\ user_preferences = <<>>
    /\ own_preferences = [o \in Owners |-> DefaultPreferences]
    /\ daily_logs = <<>>
    /\ timer_sessions = EmptyTable
    /\ inflight = {}
    /\ last = [op |-> "start", caller |-> "nobody", status |-> 0]
    /\ served = 0

NextMigrations ==
    /\ Serve
    /\ UNCHANGED <<now, goalVars, calendarVars, prefVars, recordVars,
                   vector_store, retriever, loaders>>
    /\ run_startup_migrations

SpecMigrations == InitMigrations /\ [][NextMigrations]_vars

\* ------------------------------------------------------- the retrieval index
\* load_vector_store, per calling thread: "idle" before a call, "building"
\* after the test of line 32 found no index, "built" after vector_store was
\* assigned (lines 44-64), "done" after a return of the index, "failed" after
\* the except branch returned None.

\* line 32: the test, and the early return
call_load_vector_store(thread) ==
    /\ loaders[thread] \in {"idle", "done", "failed"}
    /\ UNCHANGED <<vector_store, retriever>>
    /\ loaders' = [loaders EXCEPT ![thread] =
                      IF vector_store # None THEN "done" ELSE "building"]
    /\ last' = [op |-> "load_vector_store", caller |-> thread,
                status |-> IF vector_store # None THEN 200 ELSE 0]

\* lines 36-64: the embeddings and the index are built and the global
\* assigned, or something on the way raises (the import, the model, FAISS)
build_vector_store(thread, raised) ==
    /\ loaders[thread] = "building"
    /\ UNCHANGED retriever
    /\ vector_store' = IF raised THEN vector_store ELSE Some(thread)
    /\ loaders' = [loaders EXCEPT ![thread] = IF raised THEN "failed" ELSE "built"]
    /\ last' = [op |-> "load_vector_store", caller |-> thread,
                status |-> IF raised THEN 500 ELSE 0]

\* lines 65-69: save_local and as_retriever, on the index the global names
\* now; either may raise, and the except branch returns None
build_retriever(thread, raised) ==
    /\ loaders[thread] = "built"
    /\ UNCHANGED vector_store
    /\ retriever' = IF raised THEN retriever ELSE vector_store
    /\ loaders' = [loaders EXCEPT ![thread] = IF raised THEN "failed" ELSE "done"]
    /\ last' = [op |-> "load_vector_store", caller |-> thread,
                status |-> IF raised THEN 500 ELSE 200]

NextLoad ==
    \/ Serve /\ UNCHANGED <<now, goalVars, calendarVars, prefVars, recordVars, schema>>
             /\ \E thread \in Threads : call_load_vector_store(thread)
    \/ UNCHANGED <<served, now, goalVars, calendarVars, prefVars, recordVars, schema>>
             /\ \E thread \in Threads, raised \in BOOLEAN : build_vector_store(thread, raised)
    \/ UNCHANGED <<served, now, goalVars, calendarVars, prefVars, recordVars, schema>>
             /\ \E thread \in Threads, raised \in BOOLEAN : build_retriever(thread, raised)

SpecLoad == Init /\ [][NextLoad]_vars

\* --------------------------------------- milestone updates that interleave
\* update_milestone as the three steps of its session: the query of lines
\* 102-112; lines 114-139, where the query of line 125 first flushes the changed
\* milestone (SessionLocal autoflushes), which begins the write transaction of
\* SQLite, and then loads the goal and its milestones; the commit of line 141.

\* a stored goal with MaxMilestones milestones, the first `done` of them
\* created with completed = true
InitShared ==
    \E done \in 0..MaxMilestones :
        /\ now = 0
        /\ goals = [g \in {LargeGoalId} |-> NewGoal("A")]
        /\ milestones = [m \in 1..MaxMilestones |->
                            NewMilestone(LargeGoalId, [title |-> NewTitle, completed |-> m <= done])]
        /\ users = {}
        /\ secret_configured = TRUE
        /\ calendar_items = EmptyTable
        /\ habit_logs = <<>>
        /\ user_preferences = <<>>
        /\ own_preferences = [o \in Owners |-> DefaultPreferences]
        /\ daily_logs = <<>>
        /\ timer_sessions = EmptyTable
        /\ inflight = {}
        /\ last = [op |-> "start", caller |-> "nobody", status |-> 0]
        /\ served = 0
        /\ ProcessStarted

\* (variant) a database that lets several sessions write at once
WriteLockIgnored == TRUE

\* SQLite admits one write transaction at a time: the UPDATE of a flush waits
\* while another session has flushed and not committed
WriteLockFree == \A request \in inflight : request.phase # "flushed"

\* the row after the UPDATE of a session that loaded it as `loaded` and holds
\* it as `held`: the attributes the session changed are set, the others stay
FlushedRow(committed, loaded, held) ==
    [f \in DOMAIN committed |-> IF held[f] # loaded[f] THEN held[f] ELSE committed[f]]

\* lines 102-112: the milestone is loaded into the session, or 404
find_milestone(caller, goal_id, milestone_id, milestone_update) ==
    /\ UNCHANGED <<now, goalVars, daily_logs, timer_sessions>>
    /\ IF FindMilestone(goal_id, milestone_id) = {}
       THEN /\ UNCHANGED inflight
            /\ last' = [op |-> "update_milestone", caller |-> caller, status |-> 404]
       ELSE /\ UNCHANGED last
            /\ inflight' = inflight \cup
                   {[id |-> served + 1, op |-> "update_milestone", phase |-> "found",
                     caller |-> caller, goal_id |-> goal_id, milestone_id |-> milestone_id,
                     update |-> milestone_update, loaded |-> milestones[milestone_id],
                     row |-> milestones[milestone_id], goal |-> None]}

\* lines 114-139: the milestone is changed in the session and flushed (a null
\* title fails there: 500), then goal.milestones is loaded -- the session's own
\* milestone as it holds it, the others as they are committed -- and the goal
\* is recomputed in the session
flush_milestone(request, t) ==
    LET row == UpdatedMilestone(request.loaded, request.update, t)
        view == [milestones EXCEPT ![request.milestone_id] = row]
        goal == IF request.goal_id \in DOMAIN goals
                THEN Some([loaded |-> goals[request.goal_id],
                           held |-> RecomputedGoal(goals[request.goal_id], request.goal_id,
                                                   view, t)])
                ELSE None
    IN  /\ request.phase = "found"
        /\ WriteLockFree
        /\ now' = t
        /\ UNCHANGED <<goalVars, daily_logs, timer_sessions>>
        /\ IF row.title = None
           THEN /\ inflight' = inflight \ {request}
                /\ last' = [op |-> "update_milestone", caller |-> request.caller, status |-> 500]
           ELSE /\ UNCHANGED last
                /\ inflight' = (inflight \ {request}) \cup
                       {[request EXCEPT !.phase = "flushed", !.row = row, !.goal = goal]}

\* line 141: the changes of the session are committed
commit_milestone(request) ==
    /\ request.phase = "flushed"
    /\ UNCHANGED <<now, daily_logs, timer_sessions>>
    /\ inflight' = inflight \ {request}
    /\ milestones' = [milestones EXCEPT ![request.milestone_id] =
                         FlushedRow(@, request.loaded, request.row)]
    /\ goals' = IF request.goal = None THEN goals
                ELSE LET goal == CHOOSE g \in request.goal : TRUE
                     IN  [goals EXCEPT ![request.goal_id] = FlushedRow(@, goal.loaded, goal.held)]
    /\ last' = [op |-> "update_milestone", caller |-> request.caller, status |-> 200,
                goal_id |-> request.goal_id, milestone_id |-> request.milestone_id,
                update |-> request.update, id |-> request.id]

\* the milestone ids a request may name: the stored ones and one that is not
SharedIdInputs == 0..MaxMilestones

\* the bodies of the interleaved requests: a rename, completed set or cleared
SharedUpdates ==
    {[title |-> Some(RenamedTitle)]} \cup {[completed |-> Some(c)] : c \in BOOLEAN}

NextMilestones ==
    \/ Serve /\ UNCHANGED <<calendarVars, prefVars, processVars>>
             /\ \E milestone_id \in SharedIdInputs, milestone_update \in SharedUpdates :
                    find_milestone(goals[LargeGoalId].creator, LargeGoalId, milestone_id,
                                   milestone_update)
    \/ UNCHANGED <<served, calendarVars, prefVars, processVars>>
             /\ \E request \in inflight, t \in ClockReads(now) : flush_milestone(request, t)
    \/ UNCHANGED <<served, calendarVars, prefVars, processVars>>
             /\ \E request \in inflight : commit_milestone(request)

SpecMilestones == InitShared /\ [][NextMilestones]_vars

\* ------------------------------------------------------------------ claims
\* floor(100 * c / t), and 0 when t = 0
FloorPercent(c, t) == IF t = 0 THEN 0 ELSE (100 * c) \div t

Applied(op) == last.op = op /\ last.status = 200

AppliedNext(op) == last'.op = op /\ last'.status = 200

\* C1: after any successful update_milestone on a milestone of goal G (a
\* title-only update included), G.progress = floor(100 * c / t) over G's t
\* milestones, c of them completed.
C1_ProgressIsFloor ==
    Applied("update_milestone") =>
        goals[last.goal_id].progress =
            FloorPercent(Cardinality(CompletedOf(milestones, last.goal_id)),
                         Cardinality(MilestonesOf(milestones, last.goal_id)))

\* C2: after a successful update_milestone on goal G, progress 100 gives status
\* completed, a progress strictly between 0 and 100 gives in-progress whatever
\* the status was, and progress 0 leaves the status as it was before the call.
C2_StatusFollowsProgress ==
    [][AppliedNext("update_milestone") =>
        LET g == last'.goal_id
            p == goals'[g].progress
        IN  /\ p = 100 => goals'[g].status = "completed"
            /\ (0 < p /\ p < 100) => goals'[g].status = "in-progress"
            /\ p = 0 => goals'[g].status = goals[g].status]_vars

\* a goal that was completed keeps that status when its progress falls to 0
C2_Witness ==
    /\ Applied("update_milestone")
    /\ goals[last.goal_id].progress = 0
    /\ goals[last.goal_id].status = "completed"

\* C3: update_milestone stamps completed_at with the current time only when
\* completed goes from not completed (false, or null) to true, clears it when
\* completed goes from true to false, and leaves it alone when the update
\* carries the value the milestone already has (true on true, false on false).
C3_CompletedAtEdges ==
    [][(AppliedNext("update_milestone") /\ "completed" \in DOMAIN last'.update) =>
        LET old == milestones[last'.milestone_id]
            new == milestones'[last'.milestone_id]
            value == last'.update.completed
            rising == ~Truthy(old.completed) /\ value = Some(TRUE)
        IN  /\ rising => new.completed_at = Some(now')
            /\ (new.completed_at # old.completed_at /\ new.completed_at # None) => rising
            /\ (Truthy(old.completed) /\ value = Some(FALSE)) => new.completed_at = None
            /\ (value = old.completed /\ value # None) => new.completed_at = old.completed_at]_vars

\* completed = true was applied to a milestone completed earlier: the stamp is
\* still the earlier one
C3_Witness ==
    /\ Applied("update_milestone")
    /\ "completed" \in DOMAIN last.update
    /\ last.update.completed = Some(TRUE)
    /\ milestones[last.milestone_id].completed_at # None
    /\ milestones[last.milestone_id].completed_at # Some(now)

\* C4: an update_milestone that names a milestone that does not exist, is not
\* of goal_id, or is not owned by the caller (it or its goal) fails with 404
\* and changes nothing; so a call that was applied named a milestone of
\* goal_id, owned by the caller.
C4_ForeignMilestoneNotFound ==
    Applied("update_milestone") =>
        /\ last.milestone_id \in DOMAIN milestones
        /\ milestones[last.milestone_id].goal_id = last.goal_id
        /\ last.goal_id \in DOMAIN goals
        /\ goals[last.goal_id].creator = last.caller

\* C5: update_milestone changes, on the milestone it names, only the fields
\* present in the update (with completed_at following completed, and
\* updated_at); a field that is absent keeps its value, and no other milestone
\* of any goal changes, whether the call is applied or not.
C5_PartialUpdateFrame ==
    [][last'.op = "update_milestone" =>
        /\ DOMAIN milestones' = DOMAIN milestones
        /\ \A m \in DOMAIN milestones :
              (last'.status # 200 \/ m # last'.milestone_id) => milestones'[m] = milestones[m]
        /\ last'.status = 200 =>
              LET old == milestones[last'.milestone_id]
                  new == milestones'[last'.milestone_id]
                  update == last'.update
              IN  /\ new.goal_id = old.goal_id
                  /\ new.user_id = old.user_id
                  /\ new.title = IF "title" \in DOMAIN update THEN update.title ELSE old.title
                  /\ new.completed = IF "completed" \in DOMAIN update
                                     THEN update.completed ELSE old.completed
                  /\ "completed" \notin DOMAIN update => new.completed_at = old.completed_at]_vars

\* a title-only update of a completed, stamped milestone, beside another one
C5_Witness ==
    /\ Applied("update_milestone")
    /\ DOMAIN last.update = {"title"}
    /\ milestones[last.milestone_id].title = Some(RenamedTitle)
    /\ milestones[last.milestone_id].completed_at # None
    /\ Cardinality(DOMAIN milestones) >= 2

\* C6: a calendar item or legacy habit log created by owner A is never in a
\* list returned to another owner B, and B's get of A's calendar item by id is
\* answered 404.
C6_ReadsAreScoped ==
    /\ Applied("get_calendar_items") =>
          \A i \in last.body : calendar_items[i].creator = last.caller
    /\ Applied("get_legacy_logs") =>
          \A i \in last.body : habit_logs[i].creator = last.caller
    /\ Applied("get_calendar_item") => last.creator = last.caller

\* C7: owner B's update of, or delete of, an entity that owner A created (here
\* a calendar item; a goal or a milestone under the goals specification) is
\* answered NotFound and leaves the entity unchanged; so an update or delete
\* that was applied was the creator's own.
C7_WritesAreScoped ==
    /\ (Applied("update_calendar_item") \/ Applied("delete_calendar_item")) =>
          last.creator = last.caller
    /\ Applied("update_goal") => goals[last.goal_id].creator = last.caller

\* the request carried no token, a token that does not verify, a token without
\* sub, or a token whose sub is no registered user
Unauthenticated(token) ==
    \/ token.kind # "signed"
    \/ token.sub = None
    \/ ~(token.sub \subseteq users)

C9_PreferencesPerOwner ==
    Applied("get_user_preferences") => last.body = own_preferences[last.caller]

\* C10: PUT /preferences succeeds with 200 whether or not a GET /preferences
\* or a preferences row came before it.
C10_FirstPutSucceeds ==
    last.op = "update_user_preferences" => last.status = 200

\* C11: in every reachable state there is at most one UserPreferences row per
\* owner, also when two first reads of the same owner both query before either
\* commits.
C11_OnePreferencesRow ==
    \A owner \in Owners : Cardinality(PreferencesRowsOf(owner)) <= 1

\* C12: create_daily_log by owner O for a log_date on calendar date d is
\* rejected if and only if O already has a daily log on date d, whatever the
\* times of day; a rejected create changes no row, and another owner's log on
\* date d does not cause rejection.
C12_DuplicateDateRejected ==
    [][last'.op = "create_daily_log" =>
        LET mine == {i \in 1..Len(daily_logs) :
                        /\ daily_logs[i].creator = last'.caller
                        /\ daily_logs[i].log_date.day = last'.log_date.day}
        IN  /\ last'.status = 400 <=> mine # {}
            /\ last'.status = 400 => daily_logs' = daily_logs]_vars

\* C13: in every reachable state there is at most one DailyLog per owner and
\* calendar date, also after two creates of the same owner and date have both
\* run their existence check before either commits.
C13_OneLogPerOwnerAndDate ==
    \A i, j \in 1..Len(daily_logs) :
        (/\ i # j
         /\ daily_logs[i].creator = daily_logs[j].creator)
            => daily_logs[i].log_date.day # daily_logs[j].log_date.day

StatsAnswered == Applied("get_productivity_stats")

\* the window of the statistics request that was answered last
AnsweredWindow == WindowOf(last.start_date, last.end_date, now)

\* C14: with both bounds given and start after end, the statistics are those
\* of the call with the bounds swapped, and the request does not fail.
C14_InvertedRangeIsSwapped ==
    last.op = "get_productivity_stats" =>
        \A s \in last.start_date, e \in last.end_date :
            s > e =>
                /\ last.status = 200
                /\ last.body = StatsOver([start |-> e, end |-> s])
                /\ last.body = StatsOver(WindowOf(last.end_date, last.start_date, now))

\* an inverted range that has a task inside
C14_Witness ==
    /\ StatsAnswered
    /\ last.start_date # None
    /\ last.end_date # None
    /\ \E s \in last.start_date, e \in last.end_date : s > e
    /\ last.body.total_tasks > 0

\* C15: when either bound is absent (only start, only end, or neither), the
\* statistics are those of the window from 30 days before now to now.
C15_AbsentBoundDefaultsBoth ==
    (StatsAnswered /\ (last.start_date = None \/ last.end_date = None)) =>
        last.body = StatsOver([start |-> now - (StatsDefaultDays * DayLength), end |-> now])

\* C16: the statistics never fail on a zero denominator: completion_rate is
\* completed_tasks / total_tasks (to 3 places) when there are tasks and 0 when
\* there are none, so it lies in [0, 1]; days_in_range is the whole days of the
\* window or 1, whichever is larger, so at least 1, also for start = end.
C16_NoZeroDenominator ==
    last.op = "get_productivity_stats" =>
        /\ last.status = 200
        /\ last.body.total_tasks = 0 => last.body.completion_rate = 0
        /\ last.body.total_tasks > 0 =>
              last.body.completion_rate =
                  Rounded(last.body.completed_tasks, last.body.total_tasks, 1000)
        /\ 0 <= last.body.completion_rate
        /\ last.body.completion_rate <= 1000
        /\ DaysInRange(AnsweredWindow) >= 1
        /\ DaysInRange(AnsweredWindow) =
              Max((AnsweredWindow.end - AnsweredWindow.start) \div DayLength, 1)
        /\ last.body.daily_averages.tasks_per_day =
              Rounded(last.body.total_tasks, DaysInRange(AnsweredWindow), 100)

\* start = end, no task at that moment although tasks are stored
C16_Witness ==
    /\ StatsAnswered
    /\ last.start_date # None
    /\ last.start_date = last.end_date
    /\ last.body.total_tasks = 0
    /\ \E i \in DOMAIN calendar_items : calendar_items[i].item_type = "task"

\* the caller's calendar items of a type inside the window, bounds included
OwnItems(owner, item_type, window) ==
    {i \in DOMAIN calendar_items :
        /\ calendar_items[i].creator = owner
        /\ calendar_items[i].item_type = item_type
        /\ window.start <= calendar_items[i].start_datetime
        /\ calendar_items[i].start_datetime <= window.end}

\* C17: total_tasks is the number of the owner's tasks whose start_datetime is
\* in the window (bounds included), completed_tasks the number of those that
\* are completed, total_events the number of the owner's events in the window;
\* items of other owners are never counted.
C17_CountsOwnItems ==
    StatsAnswered =>
        LET tasks == OwnItems(last.caller, "task", AnsweredWindow)
        IN  /\ last.body.total_tasks = Cardinality(tasks)
            /\ last.body.completed_tasks =
                  Cardinality({i \in tasks : calendar_items[i].completed = Some(TRUE)})
            /\ last.body.total_events =
                  Cardinality(OwnItems(last.caller, "event", AnsweredWindow))

\* the caller's completed timer sessions inside the window
OwnSessions(owner, window) ==
    {i \in DOMAIN timer_sessions :
        /\ timer_sessions[i].creator = owner
        /\ timer_sessions[i].completed = Some(TRUE)
        /\ window.start <= timer_sessions[i].start_time
        /\ timer_sessions[i].start_time <= window.end}

\* C18: total_focus_time_minutes is the sum of duration over the owner's
\* completed timer sessions that start in the window, total_deep_work_minutes
\* the sum over those of category deep-work; sessions of other owners, not
\* completed or outside the window add nothing.
C18_SumsOwnSessions ==
    StatsAnswered =>
        LET sessions == OwnSessions(last.caller, AnsweredWindow)
        IN  /\ last.body.total_focus_time_minutes = TotalDuration(sessions)
            /\ last.body.total_deep_work_minutes =
                  TotalDuration({i \in sessions : timer_sessions[i].category = "deep-work"})
            /\ last.body.total_deep_work_minutes <= last.body.total_focus_time_minutes

RECURSIVE SumOfValues(_, _)
SumOfValues(f, keys) ==
    IF keys = {} THEN 0
    ELSE LET one == CHOOSE k \in keys : TRUE
         IN  f[one] + SumOfValues(f, keys \ {one})

\* C19: category_breakdown maps each category to the number of calendar items
\* selected for the window that have it, an item without category counting
\* under "uncategorized"; its values sum to the number of selected items,
\* which is total_tasks + total_events (every item is a task or an event).
C19_CategoryBreakdown ==
    StatsAnswered =>
        LET selected == SelectedItems(AnsweredWindow)
            breakdown == last.body.category_breakdown
        IN  /\ DOMAIN breakdown = {CategoryLabel(calendar_items[i].category) : i \in selected}
            /\ \A label \in DOMAIN breakdown :
                  breakdown[label] =
                      Cardinality({i \in selected :
                                      CategoryLabel(calendar_items[i].category) = label})
            /\ SumOfValues(breakdown, DOMAIN breakdown) = Cardinality(selected)
            /\ Cardinality(selected) = last.body.total_tasks + last.body.total_events
            /\ CategoryLabel(None) = "uncategorized"

\* a task and an event of different categories were selected
C19_Witness ==
    /\ StatsAnswered
    /\ Cardinality(DOMAIN last.body.category_breakdown) = 2
    /\ last.body.total_events = 1
    /\ last.body.total_tasks = 1

\* C20: the statistics and the digest write nothing: calendar items, timer
\* sessions, goals, milestones, daily logs and preferences rows are the same
\* before and after either call, whatever the arguments.
C20_ReadsWriteNothing ==
    [][last'.op \in {"get_productivity_stats", "get_user_productivity_data"} =>
        UNCHANGED <<calendar_items, timer_sessions, goals, milestones, daily_logs,
                    user_preferences>>]_vars

\* the digest was produced over a store that holds items and sessions
C20_Witness ==
    /\ Applied("get_user_productivity_data")
    /\ DOMAIN calendar_items # {}
    /\ DOMAIN timer_sessions # {}

\* the daily logs that the digest answered last selected for its user
DigestLogs ==
    {i \in 1..Len(daily_logs) :
        /\ daily_logs[i].user_id = Some(last.caller)
        /\ MomentOf(daily_logs[i].log_date) >= now - (last.days * DayLength)}

\* C21: in the digest, the average sleep is taken over exactly the user's daily
\* logs of the window whose sleep_hours is not null (a sleep_hours of 0
\* included), the average mood over exactly those whose mood is not null, and
\* gym days is the number of those logs with gym_completed true.
C21_AveragesOverNonNull ==
    (Applied("get_user_productivity_data") /\ DigestLogs # {}) =>
        LET sleep_hours == [i \in DigestLogs |-> daily_logs[i].sleep_hours]
            mood == [i \in DigestLogs |-> daily_logs[i].mood]
            slept == {i \in DigestLogs : sleep_hours[i] # None}
            rated == {i \in DigestLogs : mood[i] # None}
        IN  \A habits \in last.body.habits :
                /\ slept # {} =>
                      habits.avg_sleep = Rounded(SumOver(sleep_hours, slept), Cardinality(slept), 10)
                /\ rated # {} =>
                      habits.avg_mood = Rounded(SumOver(mood, rated), Cardinality(rated), 10)
                /\ habits.gym_days =
                      Cardinality({i \in DigestLogs : daily_logs[i].gym_completed = Some(TRUE)})

\* C22: for every goal of the user, the progress in the digest is computed as
\* the progress engine computes it: floor(100 * completed / total), and 0
\* without milestones; it is the value update_milestone would store.
C22_DigestProgressIsEngineProgress ==
    Applied("get_user_productivity_data") =>
        \A g \in DOMAIN last.body.goals :
            LET completed == Cardinality(CompletedOf(milestones, g))
                total == Cardinality(MilestonesOf(milestones, g))
            IN  /\ last.body.goals[g] = 10 * FloorPercent(completed, total)
                /\ last.body.goals[g] = 10 * ProgressOf(completed, total)

\* C23: when update_milestone requests on different milestones of one goal run
\* concurrently and commit, the goal's progress and status after each commit
\* are those derived from the committed completion states of all its
\* milestones (the status from that progress and the status before): no
\* recomputation is based on a stale view of the other request's milestone. A
\* request runs on a different milestone than every overlapping one when the
\* row it loaded is still the committed one.
C23_NoLostUpdate ==
    [][\A request \in inflight \ inflight' :
          (/\ request.phase = "flushed"
           /\ last'.status = 200
           /\ last'.id = request.id
           /\ request.loaded = milestones[request.milestone_id]) =>
              LET g == request.goal_id
                  progress == ProgressOf(Cardinality(CompletedOf(milestones', g)),
                                         Cardinality(MilestonesOf(milestones', g)))
              IN  /\ goals'[g].progress = progress
                  /\ goals'[g].progress = FloorPercent(Cardinality(CompletedOf(milestones', g)),
                                                       Cardinality(MilestonesOf(milestones', g)))
                  /\ goals'[g].status = StatusFor(progress, goals[g].status)]_vars

\* the request that loaded its milestone first committed last, after a request
\* on the other milestone had run inside it; both milestones were completed by
\* these two, and the goal is completed
C23_Witness ==
    /\ last.op = "update_milestone"
    /\ last.status = 200
    /\ last.id = 1
    /\ served = 2
    /\ inflight = {}
    /\ \A m \in DOMAIN milestones : milestones[m].completed_at # None
    /\ goals[LargeGoalId].progress = 100
    /\ goals[LargeGoalId].status = "completed"

\* C24: in every reachable state, for every milestone, completed_at is
\* non-null if and only if completed is true: after create_goal (milestones
\* supplied with completed = true included) and after any sequence of
\* update_milestone calls (an update that sets completed to null included).
C24_CompletedAtIffCompleted ==
    \A m \in DOMAIN milestones :
        milestones[m].completed_at # None <=> milestones[m].completed = Some(TRUE)

\* the milestones supplied to the create_goal answered last that are completed
SuppliedCompleted == {i \in 1..Len(last.supplied) : last.supplied[i].completed}

\* C25: immediately after create_goal, the goal's progress is floor(100 * c / t)
\* over the milestones supplied (0 when none), and its status is not-started
\* for progress 0, in-progress between 0 and 100, completed for 100.
C25_CreatedGoalProgress ==
    Applied("create_goal") =>
        LET progress == FloorPercent(Cardinality(SuppliedCompleted), Len(last.supplied))
        IN  /\ goals[last.goal_id].progress = progress
            /\ goals[last.goal_id].status =
                  IF progress = 100 THEN "completed"
                  ELSE IF progress > 0 THEN "in-progress"
                  ELSE "not-started"

\* C26: create_goal with k milestones persists the goal and exactly k
\* milestones with pairwise distinct ids and the goal's id as goal_id, also
\* when the clock does not advance between two id generations; the goal is
\* never persisted without its milestones. (Stated for a goal id not taken.)
C26_GoalWithAllMilestones ==
    [][(last'.op = "create_goal" /\ last'.goal_id \notin DOMAIN goals) =>
        LET g == last'.goal_id
            k == Len(last'.supplied)
        IN  /\ last'.status = 200
            /\ g \in DOMAIN goals'
            /\ Cardinality(DOMAIN milestones' \ DOMAIN milestones) = k
            /\ \A m \in DOMAIN milestones' \ DOMAIN milestones : milestones'[m].goal_id = g
            /\ DOMAIN milestones \subseteq DOMAIN milestones']_vars

\* C27: for any sequence of update_timer_session calls on a session, at most
\* one calendar item is auto-created for it: an update with completed = true and
\* created_calendar_entry = true on a session without a linked item creates one
\* completed task with id task_{session_id} and stores that id in the session's
\* calendar_item_id; no update of a stored session fails, and one that finds
\* the session linked adds no item.
C27_OneAutoCreatedItem ==
    [][(last'.op = "update_timer_session" /\ last'.session_id \in DOMAIN timer_sessions) =>
        LET id == last'.session_id
            asked == AutoCreateAsked(last'.update)
            linked == timer_sessions[id].calendar_item_id # None
        IN  /\ last'.status = 200
            /\ (asked /\ ~linked) =>
                  /\ DOMAIN calendar_items' = DOMAIN calendar_items \cup {TaskId(id)}
                  /\ calendar_items'[TaskId(id)].item_type = "task"
                  /\ calendar_items'[TaskId(id)].completed = Some(TRUE)
                  /\ timer_sessions'[id].calendar_item_id = Some(TaskId(id))
            /\ (~asked \/ linked) => calendar_items' = calendar_items]_vars

\* C28: create_calendar_items_batch is all-or-nothing and its response is
\* faithful: if every item is accepted, all are persisted and listed in
\* `created` with no errors; if any item fails, no item of the batch is
\* persisted and none is reported as created: every item listed in `created`
\* is in the store after the call.
C28_BatchAllOrNothing ==
    [][last'.op = "create_calendar_items_batch" =>
        LET created == {last'.created[i] : i \in 1..Len(last'.created)}
        IN  /\ created \subseteq DOMAIN calendar_items'
            /\ last'.errors = {} =>
                  /\ Len(last'.created) = last'.items
                  /\ DOMAIN calendar_items' = DOMAIN calendar_items \cup created
            /\ last'.errors # {} =>
                  /\ calendar_items' = calendar_items
                  /\ last'.created = <<>>]_vars

\* every user-scoped table has the user_id column and its index
Migrated(tables) ==
    \A table_name \in USER_SCOPED_TABLES :
        /\ "user_id" \in tables[table_name].columns
        /\ IndexName(table_name) \in tables[table_name].indexes

\* C29: run_startup_migrations is idempotent: a run on a migrated database
\* leaves the schema as it is and does not fail; after any run every
\* user-scoped table has a user_id column and an index ix_<table>_user_id, and
\* no existing row, column or index is removed.
C29_MigrationsIdempotent ==
    [][last'.op = "run_startup_migrations" =>
        /\ last'.status = 200
        /\ Migrated(schema')
        /\ Migrated(schema) => schema' = schema
        /\ \A table_name \in USER_SCOPED_TABLES :
              /\ schema[table_name].columns \subseteq schema'[table_name].columns
              /\ schema[table_name].indexes \subseteq schema'[table_name].indexes
        /\ UNCHANGED <<goalVars, calendar_items, habit_logs, prefVars, daily_logs,
                       timer_sessions>>]_vars

\* a run that had nothing left to do, after one that had, with rows in store
C29_Witness ==
    /\ last.op = "run_startup_migrations"
    /\ last.status = 200
    /\ ~last.changed
    /\ served >= 2
    /\ Migrated(schema)
    /\ DOMAIN goals # {}

\* C30: the retrieval index is initialised at most once per process: once
\* vector_store is non-null no call of load_vector_store reassigns vector_store
\* or retriever, two concurrent first calls do not both build and assign an
\* index, and whenever vector_store is non-null (and no call is between the two
\* assignments) retriever is non-null too, also after a failure between the
\* two assignments.
C30_IndexInitialisedOnce ==
    [][/\ vector_store # None => vector_store' = vector_store
       /\ retriever # None => retriever' = retriever
       /\ (\A thread \in Threads : loaders'[thread] # "built") =>
             (vector_store' # None => retriever' # None)]_vars
====
